---- MODULE Spec2Model ----
(***************************************************************************)
(* A model of buid's ID<P, E, N> (src/src/lib.rs): a fixed-width byte      *)
(* identifier split into prefix [0,P), content [P,N-E) and suffix [N-E,N). *)
(*                                                                         *)
(* The const generics P, E, N are chosen once (Init) and never change.     *)
(* A caller owns two identifier variables (Slots); each operation of the   *)
(* crate is one action.  Offsets are 0-based as in the source; TLA+        *)
(* sequences are 1-based, so byte position k of a buffer b is b[k + 1].    *)
(***************************************************************************)
EXTENDS Integers, Sequences, FiniteSets, TLC

VARIABLES P, E, N, slot, built, views, ret

vars == <<P, E, N, slot, built, views, ret>>

\* Largest total length N whose kinds and buffers are enumerated exhaustively.
MaxN == 2

\* Longest input handed to try_from (one byte longer than any enumerated N).
MaxLen == MaxN + 1

\* Sample values of u8: both ends of the range, where a signed reading of a
\* byte would order them the other way round.
Byte == {0, 255}

\* The caller's identifier variables.
Slots == {"x", "y"}

\* An identifier variable that holds nothing yet.
None == [bytes |-> <<-1>>]

\* The doc comment's kind: P = 3 ("usr"), E = 8 (timestamp), N = 43.
DocKind == <<3, 8, 43>>

\* A kind with neither prefix nor suffix.
FlatKind == <<0, 0, 16>>

\* A kind whose prefix and suffix overlap in the middle byte.
OverlapKind == <<2, 2, 3>>

\* "usr" ++ a 32-byte pattern ++ an 8-byte timestamp pattern.
UsrBuf == <<117, 115, 114>> \o [i \in 1..32 |-> 170] \o [i \in 1..8 |-> i]

\* The kinds (P, E, N) that are explored: every triple up to MaxN (nothing in
\* the source relates P, E and N, so none is rejected), plus the named kinds.
Kinds ==
    ((0..MaxN) \X (0..MaxN) \X (0..MaxN)) \cup {DocKind, FlatKind, OverlapKind}

\* The values of [u8; n] that are explored: every array over Byte up to
\* MaxN; for a longer one the constant arrays, the array 0, 1, 2, ... and
\* UsrBuf.
Arrays(n) ==
    IF n <= MaxN THEN [1..n -> Byte]
    ELSE {[i \in 1..n |-> b] : b \in Byte} \cup {[i \in 1..n |-> i - 1]}
         \cup (IF n = Len(UsrBuf) THEN {UsrBuf} ELSE {})

\* The values of &[u8] that are handed to try_from.
ByteSlices ==
    UNION {[1..l -> Byte] : l \in 0..MaxLen}
    \cup {[i \in 1..l |-> 0] : l \in {15, 16, 17, 40, 43, 44}}
    \cup {UsrBuf}

-----------------------------------------------------------------------------
(* Slicing: &buf[lo..hi] of core, which panics when lo > hi or hi > len.   *)

Panicked == [res |-> "panic"]
Unread == [res |-> "unread"]

Index(buf, lo, hi) ==
    IF lo > hi \/ hi > Len(buf) THEN Panicked
    ELSE [res |-> "view", off |-> lo, len |-> hi - lo,
          bytes |-> SubSeq(buf, lo + 1, hi)]

-----------------------------------------------------------------------------
(* impl ID                                                                 *)

ID_new(bytes) == [bytes |-> bytes]


\* Variant: the prefix is cut at E instead of P.
ID_prefix_swapped(self) == Index(self.bytes, 0, E)

ID_prefix(self) == Index(self.bytes, 0, P)

\* N - E on usize.  With E > N a build with overflow checks panics at the
\* subtraction; without them the difference wraps to a value above any
\* buffer length and the slice index panics.  Either way the accessor panics.
N_minus_E == IF E <= N THEN [res |-> "ok", val |-> N - E] ELSE Panicked

ID_suffix(self) ==
    IF N_minus_E.res = "panic" THEN Panicked
    ELSE Index(self.bytes, N_minus_E.val, Len(self.bytes))


\* Variant: the end of the content is taken to be its length, N - P - E.
ID_content_len(self) ==
    IF P + E > N THEN Panicked ELSE Index(self.bytes, P, N - P - E)

\* Variant: an empty content when the range is inverted, instead of a panic.
ID_content_clamped(self) ==
    IF N_minus_E.res = "panic" THEN Panicked
    ELSE Index(self.bytes, P, IF N_minus_E.val < P THEN P ELSE N_minus_E.val)

ID_content(self) ==
    IF N_minus_E.res = "panic" THEN Panicked
    ELSE Index(self.bytes, P, N_minus_E.val)

ID_as_bytes(self) == Index(self.bytes, 0, Len(self.bytes))


\* Variant: From stores the bytes in the opposite order.
ID_from_reversed(bytes) ==
    [bytes |-> [k \in 1..Len(bytes) |-> bytes[Len(bytes) + 1 - k]]]

ID_from(bytes) == ID_new(bytes)

\* <[u8; N]>::try_from(&[u8]): copies the slice when its length is N.
TryInto(value) ==
    IF Len(value) = N THEN [res |-> "ok", val |-> value] ELSE [res |-> "err"]


\* Variant: only too short an input is an error; a longer one is cut to N.
ID_try_from_truncating(value) ==
    IF Len(value) < N
    THEN [res |-> "err", err |-> [n |-> N, src |-> Len(value)]]
    ELSE [res |-> "ok", val |-> ID_new(SubSeq(value, 1, N))]

\* Variant: the all-zero identifier is rejected as well.
ID_try_from_nonzero(value) ==
    IF Len(value) # N \/ \A k \in 1..Len(value) : value[k] = 0
    THEN [res |-> "err", err |-> [n |-> N, src |-> Len(value)]]
    ELSE [res |-> "ok", val |-> ID_new(value)]

ID_try_from(value) ==
    IF Len(value) # N
    THEN [res |-> "err", err |-> [n |-> N, src |-> Len(value)]]
    ELSE LET r == TryInto(value)
         IN  IF r.res = "ok" THEN [res |-> "ok", val |-> ID_new(r.val)]
             ELSE Panicked

-----------------------------------------------------------------------------
(* #[derive(PartialEq, Eq, Ord, PartialOrd)] on ID([u8; N]): the single    *)
(* field is compared, and arrays compare element by element from index 0,  *)
(* each element as a u8.                                                   *)

RECURSIVE array_cmp(_, _)
array_cmp(a, b) ==
    IF a = <<>> THEN "Equal"
    ELSE IF Head(a) < Head(b) THEN "Less"
    ELSE IF Head(a) > Head(b) THEN "Greater"
    ELSE array_cmp(Tail(a), Tail(b))


\* Variant: the bytes are compared as i8.
ID_cmp_signed(self, other) ==
    LET i8(a) == [k \in 1..Len(a) |-> IF a[k] >= 128 THEN a[k] - 256 ELSE a[k]]
    IN  array_cmp(i8(self.bytes), i8(other.bytes))

ID_cmp(self, other) == array_cmp(self.bytes, other.bytes)

ID_eq(self, other) == \A k \in 1..Len(self.bytes) : self.bytes[k] = other.bytes[k]

-----------------------------------------------------------------------------
(* impl Display for ParseIDError.  Text is a sequence of characters.       *)

DigitChar(d) ==
    CASE d = 0 -> "0" [] d = 1 -> "1" [] d = 2 -> "2" [] d = 3 -> "3"
      [] d = 4 -> "4" [] d = 5 -> "5" [] d = 6 -> "6" [] d = 7 -> "7"
      [] d = 8 -> "8" [] d = 9 -> "9"

\* "{}" of a usize: decimal, most significant digit first, no padding.
RECURSIVE fmt_usize(_)
fmt_usize(n) ==
    IF n < 10 THEN <<DigitChar(n)>>
    ELSE fmt_usize(n \div 10) \o <<DigitChar(n % 10)>>


\* Variant: the two numbers are written in the opposite order.
ParseIDError_fmt_swapped(self) ==
    <<"b", "u", "i", "d", ":", " ", "e", "x", "p", "e", "c", "t", "e", "d", " ">>
        \o fmt_usize(self.src)
        \o <<" ", "b", "y", "t", "e", "s", ",", " ", "g", "o", "t", " ">>
        \o fmt_usize(self.n)

ParseIDError_fmt(self) ==
    <<"b", "u", "i", "d", ":", " ", "e", "x", "p", "e", "c", "t", "e", "d", " ">>
        \o fmt_usize(self.n)
        \o <<" ", "b", "y", "t", "e", "s", ",", " ", "g", "o", "t", " ">>
        \o fmt_usize(self.src)

-----------------------------------------------------------------------------
(* The state machine.                                                      *)
(*   slot[i]   the identifier held by variable i, or None                  *)
(*   built[i]  the byte sequence slot[i] was constructed from              *)
(*   views     the views the caller holds on one identifier                *)
(*   ret       what the last operation returned                            *)

NoViews(i) ==
    [who |-> i, prefix |-> Unread, content |-> Unread, suffix |-> Unread,
     as_bytes |-> Unread]

Init ==
    /\ \E k \in Kinds : P = k[1] /\ E = k[2] /\ N = k[3]
    /\ slot = [i \in Slots |-> None]
    /\ built = [i \in Slots |-> <<-1>>]
    /\ views = NoViews("-")
    /\ ret = [op |-> "init", res |-> "none"]

\* A panic ends the program: nothing runs after it.
Running == ret.res # "panic"

\* let i = ID::new(bytes);
New(i, bytes) ==
    /\ Running /\ slot[i] = None
    /\ slot' = [slot EXCEPT ![i] = ID_new(bytes)]
    /\ built' = [built EXCEPT ![i] = bytes]
    /\ views' = NoViews("-")
    /\ ret' = [op |-> "new", who |-> i, res |-> "ok"]
    /\ UNCHANGED <<P, E, N>>

\* let i: ID<P, E, N> = bytes.into();
From(i, bytes) ==
    /\ Running /\ slot[i] = None
    /\ slot' = [slot EXCEPT ![i] = ID_from(bytes)]
    /\ built' = [built EXCEPT ![i] = bytes]
    /\ views' = NoViews("-")
    /\ ret' = [op |-> "from", who |-> i, res |-> "ok"]
    /\ UNCHANGED <<P, E, N>>

\* let i = ID::try_from(value)?;  On Err nothing is bound to i.
TryFrom(i, value) ==
    /\ Running /\ slot[i] = None
    /\ LET r == ID_try_from(value)
       IN  /\ slot' = IF r.res = "ok" THEN [slot EXCEPT ![i] = r.val] ELSE slot
           /\ built' = IF r.res = "ok" THEN [built EXCEPT ![i] = value] ELSE built
           /\ ret' = [op |-> "try_from", who |-> i, len |-> Len(value)] @@ r
    /\ views' = NoViews("-")
    /\ UNCHANGED <<P, E, N>>

\* let j = i;  (ID is Copy)
Copy(i, j) ==
    /\ Running /\ slot[i] # None /\ slot[j] = None
    /\ slot' = [slot EXCEPT ![j] = slot[i]]
    /\ built' = [built EXCEPT ![j] = built[i]]
    /\ views' = NoViews("-")
    /\ ret' = [op |-> "copy", who |-> j, other |-> i, res |-> "ok"]
    /\ UNCHANGED <<P, E, N>>

\* The caller keeps the view returned by an accessor of slot i next to the
\* views of i it already holds; a panic returns nothing.
Keep(i, op, v) ==
    /\ views' = IF v.res = "panic" THEN views
                ELSE [(IF views.who = i THEN views ELSE NoViews(i)) EXCEPT ![op] = v]
    /\ ret' = [op |-> op, who |-> i, res |-> v.res]
    /\ UNCHANGED <<P, E, N, slot, built>>

Prefix(i) == Running /\ slot[i] # None /\ Keep(i, "prefix", ID_prefix(slot[i]))

Suffix(i) == Running /\ slot[i] # None /\ Keep(i, "suffix", ID_suffix(slot[i]))


\* Variant: content() hands the bytes out and leaves zeroes behind.
Content_take(i) ==
    /\ Running /\ slot[i] # None
    /\ LET v == ID_content(slot[i])
       IN  /\ slot' = [slot EXCEPT ![i] =
                         IF v.res = "panic" THEN @
                         ELSE [bytes |-> [k \in 1..Len(@.bytes) |->
                                 IF k > v.off /\ k <= v.off + v.len THEN 0
                                 ELSE @.bytes[k]]]]
           /\ views' = IF v.res = "panic" THEN views
                       ELSE [(IF views.who = i THEN views ELSE NoViews(i))
                                EXCEPT !.content = v]
           /\ ret' = [op |-> "content", who |-> i, res |-> v.res]
    /\ UNCHANGED <<P, E, N, built>>

Content(i) == Running /\ slot[i] # None /\ Keep(i, "content", ID_content(slot[i]))

AsBytes(i) == Running /\ slot[i] # None /\ Keep(i, "as_bytes", ID_as_bytes(slot[i]))

\* i.cmp(&j)
Cmp(i, j) ==
    /\ Running /\ slot[i] # None /\ slot[j] # None
    /\ ret' = [op |-> "cmp", who |-> i, other |-> j, res |-> "ord",
               ord |-> ID_cmp(slot[i], slot[j])]
    /\ views' = NoViews("-")
    /\ UNCHANGED <<P, E, N, slot, built>>

\* i == j
Eq(i, j) ==
    /\ Running /\ slot[i] # None /\ slot[j] # None
    /\ ret' = [op |-> "eq", who |-> i, other |-> j, res |-> "bool",
               val |-> ID_eq(slot[i], slot[j])]
    /\ views' = NoViews("-")
    /\ UNCHANGED <<P, E, N, slot, built>>

\* format!("{}", err) on the error of the failed try_from
Fmt ==
    /\ ret.res = "err"
    /\ ret' = [op |-> "fmt", res |-> "text", len |-> ret.len, err |-> ret.err,
               text |-> ParseIDError_fmt(ret.err)]
    /\ UNCHANGED <<P, E, N, slot, built, views>>

Next ==
    \/ \E i \in Slots, bytes \in Arrays(N) : New(i, bytes)
    \/ \E i \in Slots, bytes \in Arrays(N) : From(i, bytes)
    \/ \E i \in Slots, value \in ByteSlices : TryFrom(i, value)
    \/ \E i, j \in Slots : Copy(i, j)
    \/ \E i \in Slots : Prefix(i)
    \/ \E i \in Slots : Suffix(i)
    \/ \E i \in Slots : Content(i)
    \/ \E i \in Slots : AsBytes(i)
    \/ \E i, j \in Slots : Cmp(i, j)
    \/ \E i, j \in Slots : Eq(i, j)
    \/ Fmt

Spec == Init /\ [][Next]_vars

-----------------------------------------------------------------------------
(* Properties.                                                             *)

Accessors == {"prefix", "content", "suffix"}
Constructors == {"new", "from", "try_from"}

\* The byte positions (0-based) a view covers.
Pos(v) == {v.off + k : k \in 0..(v.len - 1)}

Read(f) == views.who \in Slots /\ views[f].res = "view"

\* The view v shows exactly the bytes of b at positions [lo, hi).
Shows(v, b, lo, hi) ==
    /\ v.off = lo /\ v.len = hi - lo /\ Len(v.bytes) = hi - lo
    /\ \A k \in lo..(hi - 1) : v.bytes[k - lo + 1] = b[k + 1]

\* C1: with P + E <= N, prefix() ++ content() ++ suffix() of an identifier
\* is the buffer it was built from.
C1_RoundTrip ==
    (P + E <= N /\ Read("prefix") /\ Read("content") /\ Read("suffix"))
        => views.prefix.bytes \o views.content.bytes \o views.suffix.bytes
               = built[views.who]

C1_Witness ==
    /\ P + E <= N /\ Read("prefix") /\ Read("content") /\ Read("suffix")
    /\ views.prefix.len > 0 /\ views.content.len > 0 /\ views.suffix.len > 0

\* C2: with P + E <= N, prefix() is bytes [0, P), content() bytes [P, N-E)
\* and suffix() bytes [N-E, N) of the buffer; the views have lengths P,
\* N-P-E and E, share no position, cover all N positions, and are empty
\* exactly when P = 0, P = N-E, E = 0.
C2_Segments ==
    P + E <= N =>
        /\ (ret.op \in Accessors => ret.res = "view")
        /\ Read("prefix") =>
              /\ Shows(views.prefix, built[views.who], 0, P)
              /\ (views.prefix.bytes = <<>>) <=> (P = 0)
        /\ Read("content") =>
              /\ Shows(views.content, built[views.who], P, N - E)
              /\ views.content.len = N - P - E
              /\ (views.content.bytes = <<>>) <=> (P = N - E)
              /\ (P = 0 /\ E = 0) => views.content.bytes = built[views.who]
        /\ Read("suffix") =>
              /\ Shows(views.suffix, built[views.who], N - E, N)
              /\ views.suffix.len = E
              /\ (views.suffix.bytes = <<>>) <=> (E = 0)
        /\ (Read("prefix") /\ Read("content") /\ Read("suffix")) =>
              /\ Pos(views.prefix) \cap Pos(views.content) = {}
              /\ Pos(views.prefix) \cap Pos(views.suffix) = {}
              /\ Pos(views.content) \cap Pos(views.suffix) = {}
              /\ Pos(views.prefix) \cup Pos(views.content) \cup Pos(views.suffix)
                     = 0..(N - 1)

C2_Witness ==
    /\ <<P, E, N>> = DocKind
    /\ Read("prefix") /\ Read("content") /\ Read("suffix")
    /\ built[views.who] = UsrBuf
    /\ views.prefix.bytes = <<117, 115, 114>>
    /\ views.suffix.bytes = <<1, 2, 3, 4, 5, 6, 7, 8>>

\* C3: try_from of an input whose length is not N returns the error with
\* n = N and src = the input's length, and binds no identifier.
C3_LengthMismatch ==
    (ret.op = "try_from" /\ ret.len # N) =>
        /\ ret.res = "err"
        /\ ret.err = [n |-> N, src |-> ret.len]
        /\ slot[ret.who] = None

C3_Witness ==
    ret.op = "try_from" /\ ret.res = "err" /\ N > 0 /\ ret.len > N

\* C4: try_from of an input of length N succeeds, whatever the bytes, and
\* as_bytes() of the identifier is the input.
C4_ParseOk ==
    /\ (ret.op = "try_from" /\ ret.len = N) =>
          /\ ret.res = "ok"
          /\ slot[ret.who] # None
          /\ Len(built[ret.who]) = N
          /\ ID_as_bytes(slot[ret.who]).res = "view"
          /\ ID_as_bytes(slot[ret.who]).bytes = built[ret.who]
    /\ Read("as_bytes") =>
          Shows(views.as_bytes, built[views.who], 0, N)

C4_Witness ==
    /\ ret.op = "try_from" /\ ret.res = "ok" /\ N > 0
    /\ \A k \in 1..N : built[ret.who][k] = 0

\* C5: for every kind for which an identifier exists, prefix(), content()
\* and suffix() never fail.
C5_ReadsNeverFail ==
    ret.op \in Accessors => ret.res = "view"

\* a precedes b in byte-wise lexicographic order: at the first position where
\* they differ, a has the smaller byte.
LexLess(a, b) ==
    \E k \in 1..Len(a) :
        /\ \A j \in 1..(k - 1) : a[j] = b[j]
        /\ a[k] < b[k]

Reverse(o) == CASE o = "Less" -> "Greater" [] o = "Greater" -> "Less" [] OTHER -> o

\* C6: == is equality of the buffers, < is their byte-wise lexicographic
\* order on unsigned bytes, and the comparison is a total order.
C6_Order ==
    /\ ret.op = "eq" =>
          (ret.val <=> (slot[ret.who].bytes = slot[ret.other].bytes))
    /\ ret.op = "cmp" =>
          LET x == slot[ret.who]
              y == slot[ret.other]
          IN  /\ ret.ord \in {"Less", "Equal", "Greater"}
              /\ (ret.ord = "Less") <=> LexLess(x.bytes, y.bytes)
              /\ (ret.ord = "Greater") <=> LexLess(y.bytes, x.bytes)
              /\ (ret.ord = "Equal") <=> (x.bytes = y.bytes)
              /\ (ret.ord = "Equal") <=> ID_eq(x, y)
              /\ ID_cmp(y, x) = Reverse(ret.ord)
              /\ \A zb \in Arrays(N) :
                    LET z == ID_new(zb)
                    IN  /\ (ret.ord = "Less" /\ ID_cmp(y, z) = "Less")
                              => ID_cmp(x, z) = "Less"
                        /\ (ret.ord = "Equal") => ID_cmp(x, z) = ID_cmp(y, z)

C6_Witness ==
    /\ ret.op = "cmp" /\ ret.ord = "Less" /\ N >= 2
    /\ slot[ret.who].bytes[1] = slot[ret.other].bytes[1]
    /\ slot[ret.who].bytes[1] = 255

DigitValue(c) ==
    CASE c = "0" -> 0 [] c = "1" -> 1 [] c = "2" -> 2 [] c = "3" -> 3
      [] c = "4" -> 4 [] c = "5" -> 5 [] c = "6" -> 6 [] c = "7" -> 7
      [] c = "8" -> 8 [] c = "9" -> 9 [] OTHER -> -1

\* t is the decimal numeral of n: digits only, no leading zero, and the
\* digits weighted by powers of ten sum to n.
IsDecimal(t, n) ==
    /\ Len(t) >= 1
    /\ \A k \in 1..Len(t) : DigitValue(t[k]) >= 0
    /\ Len(t) > 1 => t[1] # "0"
    /\ LET RECURSIVE Sum(_)
           Sum(k) == IF k = 0 THEN 0 ELSE 10 * Sum(k - 1) + DigitValue(t[k])
       IN  Sum(Len(t)) = n

\* C7: the rendered error is "buid: expected <N> bytes, got <L>", both
\* numbers in decimal, N first; for N = 43 and L = 40 it is
\* "buid: expected 43 bytes, got 40".
C7_Render ==
    ret.op = "fmt" =>
        /\ \E a, b \in 1..3 :
              /\ Len(ret.text) = 15 + a + 12 + b
              /\ SubSeq(ret.text, 1, 15) =
                   <<"b", "u", "i", "d", ":", " ",
                     "e", "x", "p", "e", "c", "t", "e", "d", " ">>
              /\ IsDecimal(SubSeq(ret.text, 16, 15 + a), N)
              /\ SubSeq(ret.text, 16 + a, 27 + a) =
                   <<" ", "b", "y", "t", "e", "s", ",", " ", "g", "o", "t", " ">>
              /\ IsDecimal(SubSeq(ret.text, 28 + a, 27 + a + b), ret.len)
        /\ (N = 43 /\ ret.len = 40) =>
              ret.text =
                <<"b", "u", "i", "d", ":", " ",
                  "e", "x", "p", "e", "c", "t", "e", "d", " ", "4", "3", " ",
                  "b", "y", "t", "e", "s", ",", " ", "g", "o", "t", " ", "4", "0">>

C7_Witness ==
    ret.op = "fmt" /\ N = 43 /\ ret.len = 40

\* C8: no operation changes an identifier that exists: its bytes stay those
\* it was built from, and an accessor called again returns the same view.
C8_Immutable ==
  /\ [](\A i \in Slots : slot[i] # None =>
            /\ ID_as_bytes(slot[i]).bytes = built[i]
            /\ views.who = i =>
                  /\ Read("prefix") => views.prefix = ID_prefix(slot[i])
                  /\ Read("content") => views.content = ID_content(slot[i])
                  /\ Read("suffix") => views.suffix = ID_suffix(slot[i])
                  /\ Read("as_bytes") => views.as_bytes = ID_as_bytes(slot[i]))
  /\ [][ /\ \A i \in Slots :
              slot[i] # None =>
                    /\ slot'[i] = slot[i]
                    /\ built'[i] = built[i]
                    /\ slot'[i].bytes = built[i]
          /\ \A f \in {"prefix", "content", "suffix", "as_bytes"} :
                (views.who = views'.who /\ views[f].res = "view")
                    => views'[f] = views[f] ]_vars

C8_Witness ==
    /\ slot["x"] # None /\ slot["y"] # None /\ built["x"] # built["y"]
    /\ ret.op = "content" /\ ret.res = "view" /\ views.content.len > 0
    /\ Read("as_bytes") /\ views.as_bytes.bytes = built[views.who]

\* C9: a kind with P <= N, E <= N and P + E > N is not rejected by any
\* constructor; prefix() and suffix() return views that overlap on the
\* positions [N-E, P); content() returns no view.
C9_Overlap ==
    (P <= N /\ E <= N /\ P + E > N) =>
        /\ (ret.op \in {"new", "from"} => ret.res = "ok" /\ slot[ret.who] # None)
        /\ (ret.op = "try_from" /\ ret.len = N)
              => ret.res = "ok" /\ slot[ret.who] # None
        /\ (ret.op \in {"prefix", "suffix"} => ret.res = "view")
        /\ (ret.op = "content" => ret.res = "panic")
        /\ views.content = Unread
        /\ Read("prefix") => views.prefix.off = 0 /\ views.prefix.len = P
        /\ Read("suffix") => views.suffix.off = N - E /\ views.suffix.len = E
        /\ (Read("prefix") /\ Read("suffix")) =>
              /\ Pos(views.prefix) \cap Pos(views.suffix) = (N - E)..(P - 1)
              /\ Pos(views.prefix) \cap Pos(views.suffix) # {}

C9_Witness ==
    /\ P <= N /\ E <= N /\ P + E > N /\ P < N /\ E < N
    /\ Read("prefix") /\ Read("suffix")
    /\ ret.op = "content" /\ ret.res = "panic"

\* C10: new(b), From::from(b) and the Ok of try_from(b) are equal
\* identifiers whose as_bytes() is b.
C10_PathsAgree ==
    (ret.op \in Constructors /\ ret.res = "ok") =>
        LET b == built[ret.who]
            t == ID_try_from(b)
        IN  /\ slot[ret.who].bytes = b
            /\ t.res = "ok"
            /\ ID_eq(ID_new(b), ID_from(b))
            /\ ID_eq(ID_new(b), t.val)
            /\ ID_cmp(ID_from(b), t.val) = "Equal"
            /\ ID_as_bytes(ID_new(b)).bytes = b
            /\ ID_as_bytes(ID_from(b)).bytes = b
            /\ ID_as_bytes(t.val).bytes = b
            /\ \A j \in Slots :
                  (slot[j] # None /\ built[j] = b) => ID_eq(slot[j], slot[ret.who])

C10_Witness ==
    /\ ret.op = "from" /\ ret.res = "ok" /\ N >= 2
    /\ built[ret.who][1] # built[ret.who][N]
    /\ \A j \in Slots : slot[j] # None /\ built[j] = built[ret.who]

====
